---- MODULE Spec2Model ----
(***************************************************************************)
(* PDF-to-custom-voice service: the HTTP API (app.py) and the Streamlit    *)
(* dashboard (app1.py).                                                    *)
(*                                                                         *)
(* The inference library (speech synthesis, speaker-embedding extraction,  *)
(* tone conversion), the audio decoder and the PDF parser are outside the  *)
(* repository.  Each call into them either succeeds or raises; which one   *)
(* happens is an input of the request.  The file system is modelled as the *)
(* set of paths that exist; an operation on a path the handler itself      *)
(* created, and that still exists, succeeds.                               *)
(*                                                                         *)
(* Handlers are atomic: requests are processed one at a time.  The only    *)
(* step outside a handler is the framework sending the FileResponse that   *)
(* convert_pdf returned.                                                   *)
(***************************************************************************)
EXTENDS Integers, Sequences, FiniteSets, TLC

(***************************************************************************)
(* Bounds                                                                  *)
(***************************************************************************)
\* number of identifiers uuid.uuid4() can hand out in one run of the model
MaxUuids == 2
\* pages of an uploaded PDF
MaxPages == 1

(***************************************************************************)
(* Values                                                                  *)
(***************************************************************************)
UuidNames == <<"u1", "u2", "u3", "u4", "u5", "u6">>
UUIDs == {UuidNames[i] : i \in 1..MaxUuids}

\* voice_id: str = None  -- the query parameter may be missing or empty
None == "None"
VoiceIdInputs == UUIDs \cup {None, ""}

Whitespace == {" ", "\n", "\t"}
\* what page.extract_text() may return: nothing, blanks only, or words
PageTexts == {<<>>, <<" ", "\t">>, <<" ", "a", "b", "\n">>}
PageSeqs == UNION {[1..n -> PageTexts] : n \in 0..MaxPages}
\* an uploaded PDF: PdfReader either raises on it or yields its pages
PDFs == {[readable |-> FALSE, pages |-> <<>>]}
          \cup {[readable |-> TRUE, pages |-> p] : p \in PageSeqs}
\* an uploaded audio file: what the decoder and the embedding extractor
\* make of it
AudioFiles == [decodable : BOOLEAN, embeddable : BOOLEAN]

NoResponse == [op |-> "none", status |-> 0, detail |-> <<>>, voice_id |-> None,
               voices |-> {}, path |-> <<>>, origin |-> "none"]
NoRequest == [op |-> "none", voice_id |-> None, parsed |-> FALSE,
              no_text |-> FALSE, tmp_path |-> <<>>, result_audio |-> <<>>]

VARIABLES
  reference_audios,  \* app.py: voice_id -> [embedding, audio_path]
  fs,                \* paths that exist on the API host
  used,              \* identifiers uuid4 has produced so far
  pending,           \* FileResponse returned by convert_pdf, not yet sent
  resp,              \* the last response the client received
  req,               \* the last request: its inputs and the handler's locals
  calls,             \* library functions the last request invoked
  returned,          \* history: voice_ids returned by successful uploads
  failed,            \* history: voice_ids generated by uploads that failed
  deleted,           \* history: records removed by successful deletes
  models_downloaded,      \* app1.py session state
  openvoice_initialized,  \* app1.py session state
  voice_samples,          \* app1.py session state: name -> record
  dfs,               \* paths that exist on the dashboard host
  dused,             \* identifiers uuid4 has produced in the dashboard
  widgets,           \* buttons the last script run rendered
  run                \* the last script run: click, action taken, outcomes

apiVars == <<reference_audios, fs, used, pending, resp, req, calls,
             returned, failed, deleted>>
dashVars == <<models_downloaded, openvoice_initialized, voice_samples, dfs,
              dused, widgets, run>>
vars == <<reference_audios, fs, used, pending, resp, req, calls,
          returned, failed, deleted, models_downloaded,
          openvoice_initialized, voice_samples, dfs, dused, widgets, run>>

(***************************************************************************)
(* Text extraction (app.py 80-85)                                          *)
(***************************************************************************)
RECURSIVE ExtractText(_)
\* text = ""; for page in pages: text += page.extract_text() + "\n"
ExtractText(pages) ==
  IF pages = <<>> THEN <<>>
  ELSE ExtractText(SubSeq(pages, 1, Len(pages) - 1))
         \o pages[Len(pages)] \o <<"\n">>

RECURSIVE LStrip(_)
LStrip(s) ==
  IF s # <<>> /\ Head(s) \in Whitespace THEN LStrip(Tail(s)) ELSE s

RECURSIVE RStrip(_)
RStrip(s) ==
  IF s # <<>> /\ s[Len(s)] \in Whitespace
  THEN RStrip(SubSeq(s, 1, Len(s) - 1)) ELSE s

\* str.strip()
Strip(s) == RStrip(LStrip(s))

\* Python truthiness of the optional voice_id
Truthy(v) == v # None /\ v # ""

(***************************************************************************)
(* Paths                                                                   *)
(***************************************************************************)
\* f"processed_{voice_id}.wav"
ProcessedPath(voice_id) == <<"processed", voice_id>>
\* the NamedTemporaryFile of the request that generated voice_id
TmpPath(voice_id) == <<"tmp", voice_id>>
\* files inside the TemporaryDirectory of a conversion
base_audio_path == <<"tmp_dir", "base_audio.wav">>
cloned_audio_path == <<"tmp_dir", "cloned_audio.wav">>
TmpDirFiles == {base_audio_path, cloned_audio_path}

IsProcessed(p) == Len(p) = 2 /\ p[1] = "processed"

(***************************************************************************)
(* Responses                                                               *)
(***************************************************************************)
Json(op, vid, voices) ==
  [op |-> op, status |-> 200, detail |-> <<>>, voice_id |-> vid,
   voices |-> voices, path |-> <<>>, origin |-> "handler"]

\* raise HTTPException(status_code=..., detail=...)
HTTPException(op, status, detail) ==
  [op |-> op, status |-> status, detail |-> detail, voice_id |-> None,
   voices |-> {}, path |-> <<>>, origin |-> "handler"]

\* FileResponse(result_audio, ...)
FileResponse(path) ==
  [op |-> "convert_pdf", status |-> 200, detail |-> <<>>, voice_id |-> None,
   voices |-> {}, path |-> path, origin |-> "handler"]

\* str(e) of the HTTPException raised at app.py 86: the empty string where the
\* exception class defines no __str__, "<status>: <detail>" where it does
NoTextDetail == "No text could be extracted from PDF"
StrOfNoText == {"", "400: No text could be extracted from PDF"}

(***************************************************************************)
(* Exceptions                                                              *)
(***************************************************************************)
\* an exception raised by a call into a library; str(e) names the call
LibraryError(call) ==
  [type |-> "Exception", status_code |-> 0, detail |-> "",
   str |-> call \o " failed"]

\* app.py 86: HTTPException(status_code=400, detail=NoTextDetail)
NoTextError(str) ==
  [type |-> "HTTPException", status_code |-> 400, detail |-> NoTextDetail,
   str |-> str]

NoError == [type |-> "none", status_code |-> 0, detail |-> "", str |-> ""]

ExceptClause_passthrough(op, prefix, e) ==
  IF e.type = "HTTPException"
  THEN HTTPException(op, e.status_code, <<e.detail>>)
  ELSE HTTPException(op, 500, <<prefix, e.str>>)

\* except Exception as e: raise HTTPException(500, prefix + str(e))
\* HTTPException is itself an Exception, so it is caught as well
ExceptClause(op, prefix, e) == HTTPException(op, 500, <<prefix, e.str>>)

UploadPrefix == "Error processing voice sample: "
ConvertPrefix == "Error converting PDF: "

(***************************************************************************)
(* The voice registry (app.py 23, 55-58, 128, 133-138)                     *)
(***************************************************************************)
EmptyRegistry == [k \in {} |-> 0]

StoreReference_nowhere(refs, voice_id, se, path) == refs

\* reference_audios[voice_id] = {"embedding": ..., "audio_path": ...}
StoreReference(refs, voice_id, se, path) ==
  [k \in DOMAIN refs \cup {voice_id} |->
     IF k = voice_id THEN [embedding |-> se, audio_path |-> path]
     ELSE refs[k]]

\* del reference_audios[voice_id]
DeleteReference(refs, voice_id) ==
  [k \in DOMAIN refs \ {voice_id} |-> refs[k]]

RemoveIfExists_skip(files, path) == files

\* if os.path.exists(p): os.remove(p)
RemoveIfExists(files, path) == files \ {path}

\* the speaker embedding se_extractor.get_se derives from a file
SpeakerEmbedding(path) == <<"se", path>>

(***************************************************************************)
(* POST /upload_voice_sample/                                              *)
(***************************************************************************)
\* the first call that raises while the sample is processed, if any
UploadError(file) ==
  IF ~file.decodable THEN LibraryError("AudioSegment.from_file")
  ELSE IF ~file.embeddable THEN LibraryError("se_extractor.get_se")
  ELSE NoError

RegistryAfterUpload_storeEarly(refs, voice_id, file) ==
  IF file.decodable
  THEN StoreReference(refs, voice_id,
                      SpeakerEmbedding(ProcessedPath(voice_id)),
                      ProcessedPath(voice_id))
  ELSE refs

\* the record is stored (55-58) only after decoding (43), export (49) and
\* embedding extraction (52) have succeeded
RegistryAfterUpload(refs, voice_id, file) ==
  IF file.decodable /\ file.embeddable
  THEN StoreReference(refs, voice_id,
                      SpeakerEmbedding(ProcessedPath(voice_id)),
                      ProcessedPath(voice_id))
  ELSE refs

\* files left behind by the handler: the temporary copy is written first
\* (37-40), the processed file is exported once decoding succeeded (48-49)
\* and the temporary copy is unlinked only on the success path (61)
FilesAfterUpload(files, voice_id, file) ==
  LET written == files \cup {TmpPath(voice_id)}
      exported == written \cup {ProcessedPath(voice_id)}
  IN  IF ~file.decodable THEN written
      ELSE IF ~file.embeddable THEN exported
      ELSE exported \ {TmpPath(voice_id)}

UploadCalls(file) ==
  IF ~file.decodable THEN <<"from_file">>
  ELSE <<"from_file", "export", "get_se">>

upload_voice_sample(file) ==
  /\ pending = NoResponse
  /\ \E voice_id \in UUIDs \ used :
       LET e == UploadError(file) IN
       /\ used' = used \cup {voice_id}
       /\ reference_audios' = RegistryAfterUpload(reference_audios, voice_id, file)
       /\ fs' = FilesAfterUpload(fs, voice_id, file)
       /\ resp' = IF e = NoError
                  THEN Json("upload_voice_sample", voice_id, {})
                  ELSE ExceptClause("upload_voice_sample", UploadPrefix, e)
       /\ req' = [NoRequest EXCEPT !.op = "upload_voice_sample",
                                    !.voice_id = voice_id,
                                    !.tmp_path = TmpPath(voice_id)]
       /\ calls' = UploadCalls(file)
       /\ returned' = IF e = NoError THEN returned \cup {voice_id} ELSE returned
       /\ failed' = IF e = NoError THEN failed ELSE failed \cup {voice_id}
  /\ UNCHANGED <<pending, deleted>>
  /\ UNCHANGED dashVars

(***************************************************************************)
(* POST /convert_pdf/                                                      *)
(***************************************************************************)
UseClone_anyVoiceId(voice_id, refs) == Truthy(voice_id)

\* if voice_id and voice_id in reference_audios
UseClone(voice_id, refs) == Truthy(voice_id) /\ voice_id \in DOMAIN refs

\* what the body of the try block can do: the library calls it makes, in
\* order, the exception that ends it or the file it returns, and the files
\* it has written into the temporary directory.  One element per way the
\* library calls it reaches can end
ConvertBodies(pdf, voice_id, refs) ==
  LET text == IF pdf.readable THEN ExtractText(pdf.pages) ELSE <<>>
      Raise(cs, e, made) ==
        [calls |-> cs, e |-> e, path |-> <<>>, created |-> made,
         no_text |-> FALSE]
      Return(cs, p, made) ==
        [calls |-> cs, e |-> NoError, path |-> p, created |-> made,
         no_text |-> FALSE]
  IN  IF ~pdf.readable
      THEN {Raise(<<>>, LibraryError("PdfReader"), {})}
      ELSE IF Strip(text) = <<>>
      THEN {[Raise(<<>>, NoTextError(str), {}) EXCEPT !.no_text = TRUE] :
              str \in StrOfNoText}
      ELSE {Raise(<<"tts">>, LibraryError("tts"), {})} \cup
           IF UseClone(voice_id, refs)
           THEN {Raise(<<"tts", "get_se">>,
                       LibraryError("se_extractor.get_se"), {base_audio_path}),
                 Raise(<<"tts", "get_se", "convert">>,
                       LibraryError("convert"), {base_audio_path}),
                 Return(<<"tts", "get_se", "convert">>, cloned_audio_path,
                        {base_audio_path, cloned_audio_path})}
           ELSE {Return(<<"tts">>, base_audio_path, {base_audio_path})}

\* leaving the with block, by return or by exception, removes the temporary
\* directory and everything in it
TemporaryDirectoryExit(files) == files \ TmpDirFiles

convert_pdf(pdf, voice_id) ==
  /\ pending = NoResponse
  /\ \E b \in ConvertBodies(pdf, voice_id, reference_audios) :
       /\ fs' = TemporaryDirectoryExit(fs \cup b.created)
       /\ pending' = IF b.e = NoError THEN FileResponse(b.path) ELSE NoResponse
       /\ resp' = IF b.e = NoError THEN NoResponse
                  ELSE ExceptClause("convert_pdf", ConvertPrefix, b.e)
       /\ req' = [NoRequest EXCEPT !.op = "convert_pdf",
                                    !.voice_id = voice_id,
                                    !.parsed = pdf.readable,
                                    !.no_text = b.no_text,
                                    !.result_audio = b.path]
       /\ calls' = b.calls
  /\ UNCHANGED <<reference_audios, used, returned, failed, deleted>>
  /\ UNCHANGED dashVars

\* the framework sends the FileResponse after the handler has returned; the
\* response reads the file at that moment
SendFileResponse ==
  /\ pending # NoResponse
  /\ resp' = IF pending.path \in fs THEN pending
             ELSE [op |-> "convert_pdf", status |-> 500,
                   detail |-> <<"Internal Server Error">>, voice_id |-> None,
                   voices |-> {}, path |-> <<>>, origin |-> "framework"]
  /\ pending' = NoResponse
  /\ UNCHANGED <<reference_audios, fs, used, req, calls, returned, failed,
                 deleted>>
  /\ UNCHANGED dashVars

(***************************************************************************)
(* GET /list_voices/                                                       *)
(***************************************************************************)
list_voices ==
  /\ pending = NoResponse
  /\ resp' = Json("list_voices", None, DOMAIN reference_audios)
  /\ req' = [NoRequest EXCEPT !.op = "list_voices"]
  /\ calls' = <<>>
  /\ UNCHANGED <<reference_audios, fs, used, pending, returned, failed,
                 deleted>>
  /\ UNCHANGED dashVars

(***************************************************************************)
(* DELETE /delete_voice/{voice_id}                                         *)
(***************************************************************************)
delete_voice(voice_id) ==
  /\ pending = NoResponse
  /\ IF voice_id \in DOMAIN reference_audios
     THEN /\ fs' = RemoveIfExists(fs, reference_audios[voice_id].audio_path)
          /\ reference_audios' = DeleteReference(reference_audios, voice_id)
          /\ resp' = Json("delete_voice", voice_id, {})
          /\ deleted' = deleted \cup
                {[voice_id |-> voice_id,
                  audio_path |-> reference_audios[voice_id].audio_path]}
     ELSE /\ resp' = HTTPException("delete_voice", 404, <<"Voice ID not found">>)
          /\ UNCHANGED <<reference_audios, fs, deleted>>
  /\ req' = [NoRequest EXCEPT !.op = "delete_voice", !.voice_id = voice_id]
  /\ calls' = <<>>
  /\ UNCHANGED <<used, pending, returned, failed>>
  /\ UNCHANGED dashVars

(***************************************************************************)
(* The API process                                                         *)
(***************************************************************************)
ApiInit ==
  /\ reference_audios = EmptyRegistry
  /\ fs = {}
  /\ used = {}
  /\ pending = NoResponse
  /\ resp = NoResponse
  /\ req = NoRequest
  /\ calls = <<>>
  /\ returned = {}
  /\ failed = {}
  /\ deleted = {}

UploadRequest == \E file \in AudioFiles : upload_voice_sample(file)
ConvertRequest ==
  \E pdf \in PDFs, voice_id \in VoiceIdInputs : convert_pdf(pdf, voice_id)
DeleteRequest == \E voice_id \in UUIDs : delete_voice(voice_id)

Next ==
  \/ UploadRequest
  \/ ConvertRequest
  \/ SendFileResponse
  \/ list_voices
  \/ DeleteRequest

(***************************************************************************)
(* The dashboard (app1.py).  Every interaction reruns the script from the  *)
(* top; an action below is one whole script run.  A button reports a click *)
(* only in the run that follows a run which rendered it.                   *)
(***************************************************************************)
VoiceNames == {"a", "b"}
DefaultVoice == "Default Voice"

\* model_urls, in the order the loop visits them (app1.py 51-55)
ModelFiles == <<"checkpoint_v1.pth", "checkpoint_v2.pth", "config.json">>
ModelPath(name) == <<"checkpoints", name>>

DownloadButton == "Download Models"
ConvertButton == "Convert to Speech"
SaveButton == "Save Voice Sample"
\* st.button("Delete", key=f"delete_{name}")
DeleteKey(name) == "delete_" \o name

NoRun == [click |-> "none", action |-> "none", download |-> "skipped",
          init |-> "skipped", message |-> ""]

RECURSIVE DownloadFrom(_, _, _)
\* the loop of download_models from the i-th file on: a file already present
\* is skipped, the first download that raises ends the function with False
DownloadFrom(i, files, failing) ==
  IF i > Len(ModelFiles) THEN [ok |-> TRUE, files |-> files]
  ELSE IF ModelPath(ModelFiles[i]) \in files
  THEN DownloadFrom(i + 1, files, failing)
  ELSE IF ModelFiles[i] \in failing THEN [ok |-> FALSE, files |-> files]
  ELSE DownloadFrom(i + 1, files \cup {ModelPath(ModelFiles[i])}, failing)

download_models(files, failing) == DownloadFrom(1, files, failing)

\* download_models sets models_downloaded only after the loop completed (71)
ModelsDownloadedAfter(flag, ok) == IF ok THEN TRUE ELSE flag

InitializedAfter_setFirst(flag, initOk) == TRUE

\* initialize_openvoice sets openvoice_initialized after both models have
\* loaded (91); an exception before that leaves the flag as it was
InitializedAfter(flag, initOk) == IF initOk THEN TRUE ELSE flag

\* tab1, the body of "Convert to Speech" (136-196): the message it shows
DashConvertMessage(pdf, selected_voice, ttsOk, cloneOk) ==
  IF ~pdf.readable THEN "Error converting PDF: PdfReader failed"
  ELSE IF Strip(ExtractText(pdf.pages)) = <<>>
  THEN "No text could be extracted from the PDF."
  ELSE IF ~ttsOk THEN "Error converting PDF: tts failed"
  ELSE IF selected_voice # DefaultVoice
  THEN IF cloneOk THEN "PDF converted to audio with voice cloning"
       ELSE "Error converting PDF: convert failed"
  ELSE "PDF converted to audio with default voice"

\* tab2, the body of "Save Voice Sample" (207-244): the record is stored
\* under the name the user typed, its file is named after a fresh uuid
SamplesAfterSave(samples, voice_name, voice_id, file) ==
  IF file.decodable /\ file.embeddable
  THEN StoreReference(samples, voice_name,
                      SpeakerEmbedding(ProcessedPath(voice_id)),
                      ProcessedPath(voice_id))
  ELSE samples

\* one script run.  in: the click that caused it and what the user supplied
\* with it, plus the outcome of every library call the run may make
ScriptRun(in) ==
  LET \* 102-109
      tryDownload == ~models_downloaded /\ in.click = DownloadButton
      d == IF tryDownload THEN download_models(dfs, in.failing)
           ELSE [ok |-> FALSE, files |-> dfs]
      md == IF tryDownload THEN ModelsDownloadedAfter(models_downloaded, d.ok)
            ELSE models_downloaded
      \* 112-117
      tryInit == md /\ ~openvoice_initialized
      oi == IF tryInit THEN InitializedAfter(openvoice_initialized, in.initOk)
            ELSE openvoice_initialized
      \* 120-262
      doConvert == oi /\ in.click = ConvertButton
      doSave == oi /\ in.click = SaveButton
      doDelete == /\ oi
                  /\ \E n \in DOMAIN voice_samples : in.click = DeleteKey(n)
      target == CHOOSE n \in DOMAIN voice_samples : in.click = DeleteKey(n)
      samples == IF doSave
                 THEN SamplesAfterSave(voice_samples, in.voice_name,
                                       in.voice_id, in.file)
                 ELSE IF doDelete THEN DeleteReference(voice_samples, target)
                 ELSE voice_samples
      files == IF doSave THEN FilesAfterUpload(d.files, in.voice_id, in.file)
               ELSE IF doDelete
               THEN RemoveIfExists(d.files, voice_samples[target].audio_path)
               ELSE d.files
  IN  /\ models_downloaded' = md
      /\ openvoice_initialized' = oi
      /\ voice_samples' = samples
      /\ dfs' = files
      /\ dused' = IF doSave THEN dused \cup {in.voice_id} ELSE dused
      /\ widgets' = (IF ~models_downloaded THEN {DownloadButton} ELSE {})
                    \cup (IF oi THEN {ConvertButton, SaveButton}
                                      \cup {DeleteKey(n) : n \in DOMAIN samples}
                          ELSE {})
      /\ run' = [click |-> in.click,
                 action |-> IF tryDownload THEN "download"
                            ELSE IF doConvert THEN "convert"
                            ELSE IF doSave THEN "save"
                            ELSE IF doDelete THEN "delete" ELSE "none",
                 download |-> IF ~tryDownload THEN "skipped"
                              ELSE IF d.ok THEN "ok" ELSE "failed",
                 init |-> IF ~tryInit THEN "skipped"
                          ELSE IF in.initOk THEN "ok" ELSE "failed",
                 message |-> IF doConvert
                             THEN DashConvertMessage(in.pdf, in.selected_voice,
                                                     in.ttsOk, in.cloneOk)
                             ELSE IF doSave /\ UploadError(in.file) # NoError
                             THEN UploadPrefix \o UploadError(in.file).str
                             ELSE ""]
      /\ UNCHANGED apiVars

\* what a run is given when the user supplied nothing
NoInput ==
  [click |-> "none", failing |-> {}, initOk |-> TRUE,
   pdf |-> [readable |-> FALSE, pages |-> <<>>], selected_voice |-> DefaultVoice,
   ttsOk |-> TRUE, cloneOk |-> TRUE, voice_name |-> "a", voice_id |-> "u1",
   file |-> [decodable |-> TRUE, embeddable |-> TRUE]]

\* a rerun without a click (a widget other than a button changed)
Rerun ==
  \E initOk \in BOOLEAN : ScriptRun([NoInput EXCEPT !.initOk = initOk])

ClickDownload ==
  /\ DownloadButton \in widgets
  /\ \E failing \in SUBSET {ModelFiles[i] : i \in 1..Len(ModelFiles)},
        initOk \in BOOLEAN :
       ScriptRun([NoInput EXCEPT !.click = DownloadButton,
                                 !.failing = failing, !.initOk = initOk])

ClickConvert ==
  /\ ConvertButton \in widgets
  /\ \E pdf \in PDFs, selected_voice \in {DefaultVoice} \cup DOMAIN voice_samples,
        ttsOk \in BOOLEAN, cloneOk \in BOOLEAN :
       ScriptRun([NoInput EXCEPT !.click = ConvertButton, !.pdf = pdf,
                                 !.selected_voice = selected_voice,
                                 !.ttsOk = ttsOk, !.cloneOk = cloneOk])

ClickSave ==
  /\ SaveButton \in widgets
  /\ \E voice_name \in VoiceNames, file \in AudioFiles,
        voice_id \in UUIDs \ dused :
       ScriptRun([NoInput EXCEPT !.click = SaveButton,
                                 !.voice_name = voice_name, !.file = file,
                                 !.voice_id = voice_id])

ClickDelete ==
  \E name \in VoiceNames :
    /\ DeleteKey(name) \in widgets
    /\ ScriptRun([NoInput EXCEPT !.click = DeleteKey(name)])

\* the session after its first script run: the flags as 39-44 set them, the
\* download button rendered, nothing else
DashInit ==
  /\ models_downloaded = FALSE
  /\ openvoice_initialized = FALSE
  /\ voice_samples = EmptyRegistry
  /\ dfs = {}
  /\ dused = {}
  /\ widgets = {DownloadButton}
  /\ run = NoRun

DashNext ==
  \/ Rerun
  \/ ClickDownload
  \/ ClickConvert
  \/ ClickSave
  \/ ClickDelete

(***************************************************************************)
(* Specifications                                                          *)
(***************************************************************************)
Init == ApiInit /\ DashInit

\* the API process
Spec == Init /\ [][Next]_vars

\* one dashboard session
DashSpec == Init /\ [][DashNext]_vars

(***************************************************************************)
(* Properties                                                              *)
(***************************************************************************)
Range(seq) == {seq[i] : i \in 1..Len(seq)}

\* the identifiers a client holds: returned by an upload, not deleted since
LiveIds == returned \ {d.voice_id : d \in deleted}

\* the last request named a voice that is a key of the registry
VoiceKnown == Truthy(req.voice_id) /\ req.voice_id \in DOMAIN reference_audios

\* the last request was a conversion of a PDF with extractable text
ConvertedWithText == req.op = "convert_pdf" /\ req.parsed /\ ~req.no_text

\* the last request was a conversion of a readable PDF without text
ConvertedWithoutText == req.op = "convert_pdf" /\ req.parsed /\ req.no_text

SynthesisFailed ==
  resp = ExceptClause("convert_pdf", ConvertPrefix, LibraryError("tts"))

C2_DeleteRemovesRecordAndFile ==
  [][ /\ \A v \in UUIDs :
           delete_voice(v) =>
             IF v \in DOMAIN reference_audios
             THEN /\ v \notin DOMAIN reference_audios'
                  /\ reference_audios[v].audio_path \notin fs'
                  /\ resp'.status = 200
             ELSE /\ reference_audios' = reference_audios
                  /\ fs' = fs
                  /\ resp'.status = 404
                  /\ resp'.detail = <<"Voice ID not found">>
      /\ \A d \in deleted' :
           /\ d.voice_id \notin DOMAIN reference_audios'
           /\ d.audio_path \notin fs' ]_vars

C2_Witness ==
  /\ deleted # {}
  /\ reference_audios # EmptyRegistry
  /\ resp.op = "delete_voice"
  /\ resp.status = 404

\* C3: converting a readable PDF whose text is empty or blank is answered
\* with status 400 and 'No text could be extracted from PDF', and no
\* library call for synthesis or tone conversion is made.
C3_NoTextIs400 ==
  ConvertedWithoutText =>
    /\ resp.status = 400
    /\ resp.detail = <<NoTextDetail>>
    /\ calls = <<>>

\* C4 as claimed: a conversion with extractable text and a voice_id that is
\* missing, empty or not a registry key returns the base audio, never invokes
\* tone conversion and does not fail; tone conversion is invoked exactly when
\* voice_id is a registry key.
C4_FallbackNeverFails ==
  ConvertedWithText =>
    /\ ~VoiceKnown =>
         /\ "convert" \notin Range(calls)
         /\ req.result_audio = base_audio_path
         /\ ~(resp.origin = "handler" /\ resp.status # 200)
    /\ VoiceKnown <=> "convert" \in Range(calls)

\* C4 amended: with extractable text and a voice_id that is missing, empty or
\* not a registry key, the handler calls only the synthesizer and, unless the
\* synthesizer raises, returns the base audio; tone conversion is invoked only
\* for a registry key, and for a registry key the cloning path is entered
\* whenever synthesis succeeded.
C4_FallbackUnlessSynthesisFails ==
  ConvertedWithText =>
    /\ ~VoiceKnown =>
         /\ calls = <<"tts">>
         /\ SynthesisFailed \/ req.result_audio = base_audio_path
    /\ "convert" \in Range(calls) => VoiceKnown
    /\ (VoiceKnown /\ ~SynthesisFailed) => "get_se" \in Range(calls)
    /\ req.result_audio = cloned_audio_path => "convert" \in Range(calls)

C4_Witness ==
  /\ ConvertedWithText
  /\ req.voice_id \in {d.voice_id : d \in deleted}
  /\ reference_audios # EmptyRegistry
  /\ req.result_audio = base_audio_path

\* C5 as claimed: every failure of every endpoint is caught by its handler and
\* reported with status 500 and the exception message.
C5_EveryFailureIs500 ==
  (resp.op # "none" /\ resp.status # 200) =>
    /\ resp.status = 500
    /\ resp.origin = "handler"
    /\ Len(resp.detail) = 2

\* C5 amended: an exception raised inside the try block of
\* upload_voice_sample or convert_pdf, the 400 for a PDF without text included,
\* is reported with status 500 and the handler's prefix followed by str(e);
\* delete_voice, which has no try block, answers 404 for an unregistered
\* identifier; list_voices never fails; a failure while the FileResponse is
\* sent happens after the handler and is reported by the framework.
C5_FailuresByEndpoint ==
  /\ (resp.op = "upload_voice_sample" /\ resp.status # 200) =>
       /\ resp.status = 500
       /\ resp.origin = "handler"
       /\ Len(resp.detail) = 2 /\ resp.detail[1] = UploadPrefix
  /\ (resp.op = "upload_voice_sample" /\ req.voice_id \in failed) =>
       resp.status = 500
  /\ (resp.op = "convert_pdf" /\ resp.origin = "handler" /\ resp.status # 200) =>
       /\ resp.status = 500
       /\ Len(resp.detail) = 2 /\ resp.detail[1] = ConvertPrefix
  /\ (req.op = "convert_pdf" /\ (~req.parsed \/ req.no_text)) =>
       /\ resp.status = 500
       /\ resp.origin = "handler"
       /\ pending = NoResponse
  /\ ConvertedWithoutText => resp.detail[2] \in StrOfNoText
  /\ (resp.op = "convert_pdf" /\ resp.origin = "framework") =>
       resp.status = 500
  /\ (resp.op = "delete_voice" /\ resp.status # 200) =>
       /\ resp.status = 404
       /\ resp.detail = <<"Voice ID not found">>
  /\ resp.op = "list_voices" => resp.status = 200

C5_Witness ==
  /\ ConvertedWithoutText
  /\ resp.status = 500
  /\ failed # {}

\* C6: when the response of a successful conversion is sent, the file it
\* names still exists.
C6_FileExistsWhenSent ==
  pending # NoResponse => pending.path \in fs

\* C7: once an upload has been answered, with success or with an error, its
\* temporary copy is gone; once a conversion has returned, its temporary
\* directory is gone.
C7_TemporariesRemoved ==
  /\ resp.op = "upload_voice_sample" => req.tmp_path \notin fs
  /\ req.op = "convert_pdf" => fs \cap TmpDirFiles = {}

\* C8: between requests the processed files on disk are exactly the
\* audio_path values of the registry's records.
C8_FilesMatchRecords ==
  {p \in fs : IsProcessed(p)}
    = {reference_audios[k].audio_path : k \in DOMAIN reference_audios}

C10_SessionFlags ==
  [][ /\ openvoice_initialized' => models_downloaded'
      /\ models_downloaded => models_downloaded'
      /\ openvoice_initialized => openvoice_initialized'
      /\ run'.action \in {"convert", "save", "delete"} =>
           openvoice_initialized /\ openvoice_initialized'
      /\ widgets' \ {DownloadButton} # {} => openvoice_initialized'
      /\ run'.download = "failed" => ~models_downloaded'
      /\ run'.init = "failed" => ~openvoice_initialized' ]_vars

C10_Witness ==
  /\ openvoice_initialized
  /\ run.action = "delete"
  /\ voice_samples # EmptyRegistry

====
